---- MODULE Spec2Model ----
(***************************************************************************)
(* Model of the nhp-dwiproc derivative kernels and stages:                 *)
(*   app/utils.py        save (Output Persister)                           *)
(*   lib/dwi.py          get_pe_indices, get_eddy_indices and the          *)
(*                       hash-tagged scratch directories of the kernels    *)
(*   workflow/.../denoise.py       denoise                                 *)
(*   workflow/.../tractography.py  _tckgen, generate_tractography          *)
(*                                                                         *)
(* Text is modelled as tuples of one-character strings so that indexing    *)
(* (ax[0], ax[1:]) and substring search ("sub-" in part) are computed.     *)
(* A path is the tuple of its pathlib parts; an absolute path starts with  *)
(* the anchor part "/".  The empty tuple is the current directory.         *)
(***************************************************************************)
EXTENDS Integers, Sequences, FiniteSets, TLC

VARIABLES
    dirs,       \* directories that exist (besides "/" and the current one)
    files,      \* files written so far: [path, src]
    cfg,        \* the Config mapping handed to the stages
    cfg0,       \* the Config as it was constructed (history)
    arg,        \* the argument of the pure function under study
    op,         \* the last call performed and what it observed
    ncalls,     \* number of calls performed so far
    pc,         \* position of generate_tractography
    calls,      \* external kernel invocations of generate_tractography
    procs       \* concurrent artifact-producing kernel calls

vars == <<dirs, files, cfg, cfg0, arg, op, ncalls, pc, calls, procs>>

----------------------------------------------------------------------------
(* Bounds *)

MaxParts == 3      \* parts of a working path after its anchor
MaxSaves == 2      \* save calls in one behaviour

----------------------------------------------------------------------------
(* Text and paths *)

Anchor == <<"/">>
cSub   == <<"s", "u", "b", "-", "1">>      \* "sub-1"
cEmb   == <<"x", "s", "u", "b", "-">>      \* "xsub-": marker not at the start
cNear  == <<"s", "u", "b">>                \* "sub": no marker
cF     == <<"f">>                          \* "f"
cOut   == <<"o", "u", "t">>                \* "out"
cDwi   == <<"d", "w", "i">>                \* "dwi"

SubMarker == <<"s", "u", "b", "-">>

\* needle in hay (Python's substring test on str)
Contains(needle, hay) ==
    \E i \in 0..(Len(hay) - Len(needle)) :
        SubSeq(hay, i + 1, i + Len(needle)) = needle

IsAbsolute(p) == p # <<>> /\ p[1] = Anchor

\* pathlib joinpath: an absolute argument replaces what is to its left
JoinPath(a, b) == IF IsAbsolute(b) THEN b ELSE a \o b

Parent(p) == IF Len(p) = 0 \/ p = <<Anchor>> THEN p ELSE SubSeq(p, 1, Len(p) - 1)

Basename(p) == IF Len(p) = 0 THEN <<>> ELSE <<p[Len(p)]>>

Prefixes(p) == {SubSeq(p, 1, n) : n \in 1..Len(p)}

----------------------------------------------------------------------------
(* File system *)

DirExists(ds, p) == p = <<>> \/ p = <<Anchor>> \/ p \in ds

FileExists(fs, p) == \E f \in fs : f.path = p

\* Path.mkdir(parents=True, exist_ok=True)
MkdirParents(ds, fs, p) ==
    IF \E q \in Prefixes(p) : FileExists(fs, q)
    THEN [ok |-> FALSE, dirs |-> ds]
    ELSE [ok |-> TRUE,  dirs |-> ds \cup (Prefixes(p) \ {<<Anchor>>})]

\* shutil.copy2(src, dst): into dst when dst is a directory; the target's
\* directory must exist and the target itself must not be a directory
CopyTarget(ds, src, dst) == IF DirExists(ds, dst) THEN dst \o Basename(src) ELSE dst

Copy2(ds, fs, src, dst) ==
    LET t == CopyTarget(ds, src, dst) IN
    IF t = <<>> \/ ~DirExists(ds, Parent(t)) \/ DirExists(ds, t)
    THEN [ok |-> FALSE, files |-> fs, target |-> t]
    ELSE [ok |-> TRUE,
          files |-> {f \in fs : f.path # t} \cup {[path |-> t, src |-> src]},
          target |-> t]

----------------------------------------------------------------------------
(* app/utils.py: save *)

\* index of the first part containing "sub-", 0 when there is none
FirstSubIdx(parts) ==
    IF \E i \in 1..Len(parts) : Contains(SubMarker, parts[i])
    THEN CHOOSE i \in 1..Len(parts) :
            /\ Contains(SubMarker, parts[i])
            /\ \A j \in 1..(i - 1) : ~Contains(SubMarker, parts[j])
    ELSE 0

\* out_fpath = out_dir.joinpath(*parts[idx:])
OutFpath(out_dir, parts, idx) == JoinPath(out_dir, SubSeq(parts, idx, Len(parts)))

\* the destination handed to shutil.copy2
CopyDest(out_dir, out_fpath) == JoinPath(out_dir, out_fpath)

\* save(files, out_dir) for one file: the resulting file system and outcome
SaveOne(ds, fs, file, out_dir) ==
    LET idx == FirstSubIdx(file) IN
    IF idx = 0
    THEN [status |-> "ValueError", dirs |-> ds, files |-> fs,
          out_fpath |-> <<>>, dest |-> <<>>, target |-> <<>>]
    ELSE
      LET out_fpath == OutFpath(out_dir, file, idx)
          mk        == MkdirParents(ds, fs, Parent(out_fpath))
          dest      == CopyDest(out_dir, out_fpath)
          cp        == Copy2(mk.dirs, fs, file, dest)
      IN  IF ~mk.ok
          THEN [status |-> "MkdirError", dirs |-> ds, files |-> fs,
                out_fpath |-> out_fpath, dest |-> <<>>, target |-> <<>>]
          ELSE IF ~cp.ok
          THEN [status |-> "CopyError", dirs |-> mk.dirs, files |-> fs,
                out_fpath |-> out_fpath, dest |-> dest, target |-> cp.target]
          ELSE [status |-> "ok", dirs |-> mk.dirs, files |-> cp.files,
                out_fpath |-> out_fpath, dest |-> dest, target |-> cp.target]

\* save(files, out_dir) for a list: one file after the other, the first
\* exception ends the call
RECURSIVE SaveList(_, _, _, _)
SaveList(ds, fs, list, out_dir) ==
    IF list = <<>>
    THEN [status |-> "ok", dirs |-> ds, files |-> fs]
    ELSE LET r == SaveOne(ds, fs, Head(list), out_dir) IN
         IF r.status # "ok"
         THEN [status |-> r.status, dirs |-> r.dirs, files |-> r.files]
         ELSE SaveList(r.dirs, r.files, Tail(list), out_dir)

----------------------------------------------------------------------------
(* Inputs of save *)

Components == {cSub, cEmb, cNear, cF}

RECURSIVE SeqsUpTo(_, _)
SeqsUpTo(S, n) ==
    IF n = 0 THEN {<<>>}
    ELSE LET shorter == SeqsUpTo(S, n - 1) IN
         shorter \cup {Append(s, x) : s \in {t \in shorter : Len(t) = n - 1}, x \in S}

\* working paths: absolute or relative, at least one part after the anchor
WorkPaths ==
    LET tails == SeqsUpTo(Components, MaxParts) \ {<<>>} IN
    tails \cup {<<Anchor>> \o t : t \in tails}

\* output roots: "/out" and "out"
OutRoots == {<<Anchor, cOut>>, <<cOut>>}

----------------------------------------------------------------------------
(* Specification of the Output Persister *)

NoOp == [name |-> "none"]

InitFs == dirs = {} /\ files = {}

\* values of the variables a specification does not use
NoCfg == [name |-> "none"]

InitSave ==
    /\ InitFs
    /\ op = NoOp
    /\ ncalls = 0
    /\ cfg = NoCfg /\ cfg0 = NoCfg
    /\ arg = <<>>
    /\ pc = "idle" /\ calls = <<>>
    /\ procs = <<>>

\* save(file, out_dir) with a single path
Save(file, out_dir) ==
    /\ ncalls < MaxSaves
    /\ LET r == SaveOne(dirs, files, file, out_dir) IN
        /\ dirs' = r.dirs
        /\ files' = r.files
        /\ op' = [name |-> "save", file |-> file, out_dir |-> out_dir,
                  status |-> r.status, out_fpath |-> r.out_fpath,
                  dest |-> r.dest, target |-> r.target,
                  dirsBefore |-> dirs, filesBefore |-> files]
    /\ ncalls' = ncalls + 1
    /\ UNCHANGED <<cfg, cfg0, arg, pc, calls, procs>>

NextSave == \E file \in WorkPaths, out_dir \in OutRoots : Save(file, out_dir)

SpecSave == InitSave /\ [][NextSave]_vars

----------------------------------------------------------------------------
(* Claims about save *)

\* the path the specification reconstructs: the output root followed by the
\* parts of the working path from the first part containing "sub-" onward
Reconstructed(out_dir, file) ==
    out_dir \o SubSeq(file, FirstSubIdx(file), Len(file))

HasSubPart(file) == \E i \in 1..Len(file) : Contains(SubMarker, file[i])

\* C3: a save of a single working path with some part containing "sub-"
\* persists the file at the output root followed by the parts from the first
\* such part onward; with no such part it fails with an error and neither
\* creates a directory nor copies a file.
C3_PersistedPath ==
    op.name = "save" =>
        IF HasSubPart(op.file)
        THEN /\ op.status = "ok"
             /\ [path |-> Reconstructed(op.out_dir, op.file), src |-> op.file] \in files
        ELSE /\ op.status = "ValueError"
             /\ dirs = op.dirsBefore
             /\ files = op.filesBefore

\* C10: whenever save reaches the copy, the destination it copies to is the
\* reconstructed path, whose parent directory save has just created; the
\* output root is not applied to it a second time.
C10_DestinationIsReconstructed ==
    (op.name = "save" /\ op.status \in {"ok", "CopyError"}) =>
        /\ op.dest = Reconstructed(op.out_dir, op.file)
        /\ op.dest = op.out_fpath
        /\ DirExists(dirs, Parent(op.dest))

----------------------------------------------------------------------------
(* lib/dwi.py: get_pe_indices *)

MaxAcq == 3        \* acquisitions handed to get_pe_indices

\* direction labels: an axis letter, optionally followed by "-"
Labels == {<<"i">>, <<"j">>, <<"k">>, <<"i", "-">>, <<"j", "-">>, <<"k", "-">>}

Digit(d) ==
    CASE d = 0 -> "0" [] d = 1 -> "1" [] d = 2 -> "2" [] d = 3 -> "3"
      [] d = 4 -> "4" [] d = 5 -> "5" [] d = 6 -> "6" [] d = 7 -> "7"
      [] d = 8 -> "8" [] d = 9 -> "9"

\* str(n) of a non-negative integer
RECURSIVE Str(_)
Str(n) == IF n < 10 THEN Digit(n) ELSE Str(n \div 10) \o Digit(n % 10)

\* pe["axe"] = [ax[0] for ax in pe_dirs]
Axe(pe_dirs) == [n \in 1..Len(pe_dirs) |-> pe_dirs[n][1]]

\* pe["dir"] = [ax[1:] for ax in pe_dirs]
Dir(pe_dirs) == [n \in 1..Len(pe_dirs) |-> SubSeq(pe_dirs[n], 2, Len(pe_dirs[n]))]

SeqToSet(s) == {s[n] : n \in 1..Len(s)}

\* idxes = idx + 1, idx the 0-based position given by enumerate
Position_ZeroBased(idx) == idx
Position(idx) == idx + 1

\* the loop over enumerate(pe["axe"]), from 0-based position idx on: the
\* strings appended to indices["lr"] (letter "i") or indices["ap"] ("j")
RECURSIVE Collect(_, _, _)
Collect(axe, letter, idx) ==
    IF idx >= Len(axe) THEN <<>>
    ELSE (IF axe[idx + 1] = letter THEN <<Str(Position(idx))>> ELSE <<>>)
            \o Collect(axe, letter, idx + 1)

\* len(set(indices["lr"])) == 2
UseLR_AtLeastOne(lr) == Cardinality(SeqToSet(lr)) >= 1
UseLR(lr) == Cardinality(SeqToSet(lr)) = 2

get_pe_indices(pe_dirs) ==
    LET axe == Axe(pe_dirs)
        lr  == Collect(axe, "i", 0)
        ap  == Collect(axe, "j", 0)
    IN  IF Cardinality(SeqToSet(pe_dirs)) > 1
        THEN IF UseLR(lr) THEN lr ELSE ap
        ELSE [n \in 1..Len(axe) |-> "1"]

InitPE ==
    /\ arg \in SeqsUpTo(Labels, MaxAcq)
    /\ op = NoOp
    /\ ncalls = 0
    /\ InitFs
    /\ cfg = NoCfg /\ cfg0 = NoCfg
    /\ pc = "idle" /\ calls = <<>>
    /\ procs = <<>>

GetPeIndices ==
    /\ op = NoOp
    /\ op' = [name |-> "get_pe_indices", pe_dirs |-> arg,
              result |-> get_pe_indices(arg)]
    /\ ncalls' = ncalls + 1
    /\ UNCHANGED <<dirs, files, cfg, cfg0, arg, pc, calls, procs>>

NextPE == GetPeIndices

SpecPE == InitPE /\ [][NextPE]_vars

(* Claims about get_pe_indices *)

\* the acquisitions (1-based positions) whose label starts with letter
OnAxis(pe_dirs, letter) == {n \in 1..Len(pe_dirs) : Head(pe_dirs[n]) = letter}

PositionNames == <<"1", "2", "3", "4", "5", "6", "7", "8", "9">>

\* out lists, in increasing order, the names of the positions in P
ListsPositions(out, P) ==
    /\ Len(out) = Cardinality(P)
    /\ \A k \in 1..Len(out) :
          \E n \in P : /\ Cardinality({m \in P : m < n}) = k - 1
                       /\ out[k] = PositionNames[n]

AllIdentical(pe_dirs) == \A m, n \in 1..Len(pe_dirs) : pe_dirs[m] = pe_dirs[n]

\* C4: get_pe_indices returns "1" once per input when all labels are
\* identical; otherwise the 1-based positions of the i-axis acquisitions
\* when exactly two acquisitions are on the i axis, and the positions of the
\* j-axis acquisitions in every other case; [i, i-] and [j, j-] and
\* [i, i-, j] all give ["1", "2"].
C4_PeIndices ==
    op.name = "get_pe_indices" =>
        LET d == op.pe_dirs
            out == op.result
        IN  /\ AllIdentical(d) =>
                  (Len(out) = Len(d) /\ \A n \in 1..Len(d) : out[n] = "1")
            /\ (~AllIdentical(d) /\ Cardinality(OnAxis(d, "i")) = 2) =>
                  ListsPositions(out, OnAxis(d, "i"))
            /\ (~AllIdentical(d) /\ Cardinality(OnAxis(d, "i")) # 2) =>
                  ListsPositions(out, OnAxis(d, "j"))
            /\ d = << <<"i">>, <<"i", "-">> >> => out = <<"1", "2">>
            /\ d = << <<"j">>, <<"j", "-">> >> => out = <<"1", "2">>
            /\ d = << <<"i">>, <<"i", "-">>, <<"j">> >> => out = <<"1", "2">>

C4_Witness ==
    /\ op.name = "get_pe_indices"
    /\ op.pe_dirs = << <<"i">>, <<"i", "-">>, <<"j">> >>
    /\ op.result = <<"1", "2">>

\* C6 as stated: with more than one distinct label the result has one
\* group index per input acquisition.
C6_OnePerAcquisition ==
    (op.name = "get_pe_indices" /\ ~AllIdentical(op.pe_dirs)) =>
        Len(op.result) = Len(op.pe_dirs)

SelectedAxis(pe_dirs) == IF Cardinality(OnAxis(pe_dirs, "i")) = 2 THEN "i" ELSE "j"

\* C6 (amended): with more than one distinct label the result has exactly
\* one index per acquisition on the selected axis (i when exactly two
\* acquisitions are on i, otherwise j) and none for the others, so it has
\* one index per input acquisition only when every acquisition is on the
\* selected axis and is shorter, possibly empty, otherwise.
C6_OnePerSelectedAcquisition ==
    (op.name = "get_pe_indices" /\ ~AllIdentical(op.pe_dirs)) =>
        LET d == op.pe_dirs
            sel == OnAxis(d, SelectedAxis(d))
        IN  /\ Len(op.result) = Cardinality(sel)
            /\ Len(op.result) <= Len(d)
            /\ (Len(op.result) = Len(d)) <=> (sel = 1..Len(d))

C6_Witness ==
    /\ op.name = "get_pe_indices"
    /\ op.pe_dirs = << <<"i">>, <<"j">> >>
    /\ op.result = <<"2">>

----------------------------------------------------------------------------
(* lib/dwi.py: hash-tagged scratch directories of the kernels *)

MaxProcs == 2      \* concurrent kernel calls on one working directory

\* cfg["opt.working_dir"]
WorkingDir == <<Anchor, <<"w">>>>

\* the tags gen_hash() can return
Tags == {<<"a">>, <<"b">>}

Kernels == {"concat_dir_phenc_data", "normalize", "get_eddy_indices", "rotate_bvec"}

\* the stage label that follows the tag in the directory name
KernelLabel(kind) ==
    CASE kind = "concat_dir_phenc_data" -> <<"concat-phenc">>
      [] kind = "normalize"             -> <<"normalize">>
      [] kind = "get_eddy_indices"      -> <<"eddy-indices">>
      [] kind = "rotate_bvec"           -> <<"rotate-bvec">>

\* the file name utils.bids_name(...) gives the kernel's artifact
ArtifactName(kind) ==
    CASE kind = "concat_dir_phenc_data" -> cSub \o <<"_", "desc-concat_phenc.txt">>
      [] kind = "normalize"             -> cSub \o <<"_", "desc-normalized_b0.nii.gz">>
      [] kind = "get_eddy_indices"      -> cSub \o <<"_", "desc-eddy_indices.txt">>
      [] kind = "rotate_bvec"           -> cSub \o <<"_", "desc-preproc_dwi.bvec">>

\* cfg["opt.working_dir"] / f"{gen_hash()}_<label>"
ScratchDir(tag, kind) == WorkingDir \o <<tag \o <<"_">> \o KernelLabel(kind)>>

\* Path.mkdir(parents=True, exist_ok=False)
MkdirExclusive_ExistOk(ds, fs, p) ==
    IF \E q \in Prefixes(p) : FileExists(fs, q)
    THEN [ok |-> FALSE, dirs |-> ds]
    ELSE [ok |-> TRUE,  dirs |-> ds \cup (Prefixes(p) \ {<<Anchor>>})]
MkdirExclusive(ds, fs, p) ==
    IF DirExists(ds, p) \/ \E q \in Prefixes(p) : FileExists(fs, q)
    THEN [ok |-> FALSE, dirs |-> ds]
    ELSE [ok |-> TRUE,  dirs |-> ds \cup (Prefixes(p) \ {<<Anchor>>})]

InitScratch ==
    /\ procs \in [1..MaxProcs -> [kind : Kernels, pc : {"start"}, tag : {<<>>},
                                  existed : {FALSE}]]
    /\ InitFs
    /\ op = NoOp
    /\ ncalls = 0
    /\ cfg = NoCfg /\ cfg0 = NoCfg
    /\ arg = <<>>
    /\ pc = "idle" /\ calls = <<>>

\* gen_hash(): the call draws its tag
GenHash(p) ==
    /\ procs[p].pc = "start"
    /\ \E tag \in Tags :
          procs' = [procs EXCEPT ![p].pc = "hashed", ![p].tag = tag]
    /\ UNCHANGED <<dirs, files, cfg, cfg0, arg, op, ncalls, pc, calls>>

\* <path>.parent.mkdir(parents=True, exist_ok=False)
Mkdir(p) ==
    /\ procs[p].pc = "hashed"
    /\ LET d == ScratchDir(procs[p].tag, procs[p].kind)
           r == MkdirExclusive(dirs, files, d)
       IN  /\ dirs' = r.dirs
           /\ procs' = [procs EXCEPT ![p].pc = IF r.ok THEN "made" ELSE "FileExistsError",
                                     ![p].existed = DirExists(dirs, d)]
    /\ UNCHANGED <<files, cfg, cfg0, arg, op, ncalls, pc, calls>>

\* np.savetxt / nib.save of the artifact into the directory
WriteArtifact(p) ==
    /\ procs[p].pc = "made"
    /\ LET d == ScratchDir(procs[p].tag, procs[p].kind)
           f == d \o <<ArtifactName(procs[p].kind)>>
       IN  files' = {x \in files : x.path # f} \cup {[path |-> f, src |-> <<"call", p>>]}
    /\ procs' = [procs EXCEPT ![p].pc = "done"]
    /\ UNCHANGED <<dirs, cfg, cfg0, arg, op, ncalls, pc, calls>>

\* get_eddy_indices: np.array(eddy_idxes) raises on a ragged list
WriteError(p) ==
    /\ procs[p].pc = "made"
    /\ procs[p].kind = "get_eddy_indices"
    /\ procs' = [procs EXCEPT ![p].pc = "ValueError"]
    /\ UNCHANGED <<dirs, files, cfg, cfg0, arg, op, ncalls, pc, calls>>

NextScratch ==
    \E p \in 1..MaxProcs :
        \/ GenHash(p)
        \/ Mkdir(p)
        \/ WriteArtifact(p)
        \/ WriteError(p)

SpecScratch == InitScratch /\ [][NextScratch]_vars

(* Claims about the scratch directories *)

ProcIds == DOMAIN procs

ProcDir(p) == ScratchDir(procs[p].tag, procs[p].kind)

Wrote(p) == \E f \in files : f.src = <<"call", p>>

\* C9: in any interleaving, a call whose hash-tagged directory already
\* exists fails without writing its artifact; no two successful calls write
\* into the same scratch directory and an existing directory is never reused.
C9_NoSharedScratchDir ==
    /\ \A p \in ProcIds :
          /\ procs[p].existed => (procs[p].pc = "FileExistsError" /\ ~Wrote(p))
          /\ procs[p].pc = "FileExistsError" => ~Wrote(p)
          /\ Wrote(p) => procs[p].pc = "done"
    /\ \A p, q \in ProcIds :
          (p # q /\ procs[p].pc = "done" /\ procs[q].pc = "done")
              => ProcDir(p) # ProcDir(q)
    /\ \A p, q \in ProcIds :
          (p # q /\ procs[p].pc \in {"made", "done", "ValueError"}
                 /\ procs[q].pc \in {"made", "done", "ValueError"})
              => ProcDir(p) # ProcDir(q)
    /\ \A p \in ProcIds : procs[p].pc = "done" =>
          Cardinality({f \in files : Parent(f.path) = ProcDir(p)}) = 1

C9_Witness ==
    \E p, q \in ProcIds :
        /\ p # q
        /\ procs[p].kind = procs[q].kind
        /\ procs[p].tag = procs[q].tag
        /\ procs[p].pc = "done" /\ Wrote(p)
        /\ procs[q].pc = "FileExistsError" /\ procs[q].existed

----------------------------------------------------------------------------
(* lib/dwi.py: get_eddy_indices *)

MaxVols == 2        \* input volumes of one call
MaxFrames == 2      \* frames of a 4D volume
MaxEddyCalls == 2   \* get_eddy_indices calls in one behaviour

\* header.get_data_shape(): 3D, or 4D with the frame count last
Shapes == {<<2, 2, 2>>} \cup {<<2, 2, 2, f>> : f \in 1..MaxFrames}

\* the indices argument: None or a list of index strings
NoneIdx == [none |-> TRUE, list |-> <<>>]
IndexArgs == {NoneIdx} \cup {[none |-> FALSE, list |-> l] : l \in SeqsUpTo({"1", "2"}, MaxVols)}

Repeat(x, n) == [k \in 1..n |-> x]

Min(a, b) == IF a < b THEN a ELSE b

\* indices or ["1"] * len(imsizes)
IndicesOrDefault(indices, imsizes) ==
    IF indices.none \/ indices.list = <<>> THEN Repeat("1", Len(imsizes)) ELSE indices.list

\* one entry of eddy_idxes: the bare index, or the index once per frame
EddyEntry(idx, imsize) ==
    IF Len(imsize) < 4
    THEN [scalar |-> TRUE,  items |-> <<idx>>]
    ELSE [scalar |-> FALSE, items |-> Repeat(idx, imsize[4])]

\* eddy_idxes: zip stops at the shorter of the two lists
EddyIdxes(indices, imsizes) ==
    LET idxs == IndicesOrDefault(indices, imsizes) IN
    [k \in 1..Min(Len(idxs), Len(imsizes)) |-> EddyEntry(idxs[k], imsizes[k])]

\* whether np.array(eddy_idxes) is a regular array: all bare strings, or all
\* lists of one length
Homogeneous(entries) ==
    \/ \A k \in 1..Len(entries) : entries[k].scalar
    \/ /\ \A k \in 1..Len(entries) : ~entries[k].scalar
       /\ \A k, l \in 1..Len(entries) : Len(entries[k].items) = Len(entries[l].items)

RECURSIVE Flatten(_)
Flatten(entries) ==
    IF entries = <<>> THEN <<>> ELSE Head(entries).items \o Flatten(Tail(entries))

\* "%s" of a Python list of strings: ['1', '1']
RECURSIVE JoinRepr(_)
JoinRepr(items) ==
    IF items = <<>> THEN ""
    ELSE IF Len(items) = 1 THEN "'" \o items[1] \o "'"
    ELSE "'" \o items[1] \o "', " \o JoinRepr(Tail(items))

ObjectToken(entry) == IF entry.scalar THEN entry.items[1] ELSE "[" \o JoinRepr(entry.items) \o "]"

\* np.array(eddy_idxes).flatten() as np.savetxt(fmt="%s") writes it.  A
\* ragged list raises ValueError under NumPy >= 1.24 ("strict") and becomes
\* a 1-D object array with one element per acquisition before ("legacy").
EddyTable(entries, numpy) ==
    IF Homogeneous(entries)
    THEN [ok |-> TRUE, tokens |-> Flatten(entries)]
    ELSE IF numpy = "strict"
    THEN [ok |-> FALSE, tokens |-> <<>>]
    ELSE [ok |-> TRUE, tokens |-> [k \in 1..Len(entries) |-> ObjectToken(entries[k])]]

InitEddy ==
    /\ InitFs
    /\ op = NoOp
    /\ ncalls = 0
    /\ cfg = NoCfg /\ cfg0 = NoCfg
    /\ arg = <<>>
    /\ pc = "idle" /\ calls = <<>>
    /\ procs = <<>>

GetEddyIndices(niis, indices, tag, numpy) ==
    /\ ncalls < MaxEddyCalls
    /\ LET eddy_idxes == EddyIdxes(indices, niis)
           out_dir    == ScratchDir(tag, "get_eddy_indices")
           out_fpath  == out_dir \o <<ArtifactName("get_eddy_indices")>>
           mk         == MkdirExclusive(dirs, files, out_dir)
           table      == EddyTable(eddy_idxes, numpy)
           status     == IF ~mk.ok THEN "FileExistsError"
                         ELSE IF ~table.ok THEN "ValueError" ELSE "ok"
       IN  /\ dirs' = mk.dirs
           /\ files' = IF status = "ok"
                       THEN {x \in files : x.path # out_fpath}
                                \cup {[path |-> out_fpath, src |-> table.tokens]}
                       ELSE files
           /\ op' = [name |-> "get_eddy_indices", niis |-> niis, indices |-> indices,
                     status |-> status, out_fpath |-> out_fpath,
                     table |-> IF status = "ok" THEN table.tokens ELSE <<>>]
    /\ ncalls' = ncalls + 1
    /\ UNCHANGED <<cfg, cfg0, arg, pc, calls, procs>>

NextEddy ==
    \E niis \in SeqsUpTo(Shapes, MaxVols), indices \in IndexArgs,
       tag \in Tags, numpy \in {"strict", "legacy"} :
        GetEddyIndices(niis, indices, tag, numpy)

SpecEddy == InitEddy /\ [][NextEddy]_vars

(* Claims about get_eddy_indices *)

\* frames of a volume: 1 for an image with fewer than 4 dimensions
FrameCount(imsize) == IF Len(imsize) < 4 THEN 1 ELSE imsize[4]

RECURSIVE SumFrames(_)
SumFrames(niis) == IF niis = <<>> THEN 0 ELSE FrameCount(Head(niis)) + SumFrames(Tail(niis))

\* frames of all volumes before volume k
FramesBefore(niis, k) == SumFrames(SubSeq(niis, 1, k - 1))

IndexOf(indices, k) == IF indices.none THEN "1" ELSE indices.list[k]

\* C5: for N volumes and indices None or a list of N indices, the table
\* written is each acquisition's index repeated once per frame, in
\* acquisition order, so its length is the sum of the frame counts, also
\* when the frame counts differ.
C5_TableIsIndexPerFrame ==
    (/\ op.name = "get_eddy_indices"
     /\ op.status # "FileExistsError"
     /\ (op.indices.none \/ Len(op.indices.list) = Len(op.niis))) =>
        /\ op.status = "ok"
        /\ Len(op.table) = SumFrames(op.niis)
        /\ \A k \in 1..Len(op.niis) :
              \A f \in 1..FrameCount(op.niis[k]) :
                  op.table[FramesBefore(op.niis, k) + f] = IndexOf(op.indices, k)
        /\ [path |-> op.out_fpath, src |-> op.table] \in files

----------------------------------------------------------------------------
(* Names and paths shared by the stages *)

\* bids(directory=True): the entity-derived directory of datatype "dwi"
BidsDirectory == <<cSub, cDwi>>

\* bids(...): the entity-keyed file name with the given descriptor fields
BidsName(fields) == cSub \o <<"_", fields>>

\* where the runner leaves the named output of an external kernel
KernelOutput(kernel, name) == WorkingDir \o <<<<"h", "_", kernel>>, name>>

\* input_data["dwi"]["nii"]
InputNii == <<Anchor, <<"bids">>, cSub, cDwi, BidsName("dwi.nii.gz")>>

\* cfg["output_dir"] / bids(directory=True)
StageOutDir(c) == JoinPath(c.output_dir, BidsDirectory)

----------------------------------------------------------------------------
(* workflow/diffusion/preprocess/denoise.py: denoise *)

MaxNonZero == 31        \* non-zero entries of a b-value table
MaxZero == 1            \* zero entries of a b-value table
MaxDenoiseCalls == 2    \* denoise calls that share one Config

DenoiseThreshold == 30

\* np.loadtxt(bval): nz diffusion-weighted entries and z b=0 entries
BvalTable(nz, z) == [k \in 1..(nz + z) |-> IF k <= nz THEN 1000 ELSE 0]

BvalTables == {BvalTable(nz, z) : nz \in 0..MaxNonZero, z \in 0..MaxZero}

\* bval[bval != 0].size
NonZeroSize(bval) == Cardinality({k \in DOMAIN bval : bval[k] # 0})

\* bval[bval != 0].size < 30
TooFewDirections_Inclusive(bval) == NonZeroSize(bval) <= DenoiseThreshold
TooFewDirections(bval) == NonZeroSize(bval) < DenoiseThreshold

\* what mrtrix.dwidenoise can do: raise, or return its outputs with or
\* without the noise map (which it only has when one was asked for)
DenoiseOutcomes(c) ==
    {"fails", "out_only"} \cup (IF c.map THEN {"out_and_noise"} ELSE {})

DenoisedOut == KernelOutput("dwidenoise", BidsName("desc-denoise_dwi.nii.gz"))
NoiseOut    == KernelOutput("dwidenoise", BidsName("param-noise_dwimap.nii.gz"))

DenoiseCfgs ==
    [skip : BOOLEAN, map : BOOLEAN, output_dir : OutRoots,
     method : {"wm"}, threads : {1}, steps : {"None"}, cutoff : {"None"}]

InitDenoise ==
    /\ cfg \in DenoiseCfgs
    /\ cfg0 = cfg
    /\ InitFs
    /\ op = NoOp
    /\ ncalls = 0
    /\ arg = <<>>
    /\ pc = "idle" /\ calls = <<>>
    /\ procs = <<>>

\* the outcome of one denoise call on Config c
DenoiseCall(c, ds, fs, bval, kernel) ==
    LET skip == IF TooFewDirections(bval) THEN TRUE ELSE c.skip
        c1   == [c EXCEPT !.skip = skip]
        base == [cfg |-> c1, dirs |-> ds, files |-> fs,
                 kernelInvoked |-> FALSE, saveInvoked |-> FALSE,
                 status |-> "ok", returned |-> <<>>]
    IN  IF skip
        THEN [base EXCEPT !.returned = InputNii]
        ELSE IF kernel = "fails"
        THEN [base EXCEPT !.kernelInvoked = TRUE, !.status = "KernelError"]
        ELSE IF ~c1.map
        THEN [base EXCEPT !.kernelInvoked = TRUE, !.returned = DenoisedOut]
        ELSE IF kernel # "out_and_noise"
        THEN [base EXCEPT !.kernelInvoked = TRUE, !.status = "ValueError"]
        ELSE LET r == SaveOne(ds, fs, NoiseOut, StageOutDir(c1)) IN
             [base EXCEPT !.kernelInvoked = TRUE, !.saveInvoked = TRUE,
                          !.dirs = r.dirs, !.files = r.files,
                          !.status = r.status,
                          !.returned = IF r.status = "ok" THEN DenoisedOut ELSE <<>>]

Denoise(bval, kernel) ==
    /\ ncalls < MaxDenoiseCalls
    /\ LET r == DenoiseCall(cfg, dirs, files, bval, kernel) IN
        /\ cfg' = r.cfg
        /\ dirs' = r.dirs
        /\ files' = r.files
        /\ op' = [name |-> "denoise", bval |-> bval, entrySkip |-> cfg.skip,
                  map |-> cfg.map, output_dir |-> cfg.output_dir,
                  kernel |-> IF r.kernelInvoked THEN kernel ELSE "not invoked",
                  kernelInvoked |-> r.kernelInvoked, saveInvoked |-> r.saveInvoked,
                  status |-> r.status, returned |-> r.returned,
                  dirsBefore |-> dirs, filesBefore |-> files]
    /\ ncalls' = ncalls + 1
    /\ UNCHANGED <<cfg0, arg, pc, calls, procs>>

NextDenoise ==
    \E bval \in BvalTables, kernel \in DenoiseOutcomes(cfg) : Denoise(bval, kernel)

SpecDenoise == InitDenoise /\ [][NextDenoise]_vars

(* Claims about denoise *)

\* number of non-zero entries of a b-value table
NonZeroEntries(bval) == Len(SelectSeq(bval, LAMBDA b : b # 0))

SkipCase == op.entrySkip \/ NonZeroEntries(op.bval) < 30

InSkip == op.status = "ok" /\ op.returned = InputNii /\ ~op.kernelInvoked

\* C1 as stated, for calls in which the kernel itself succeeds and nothing
\* is handed to the Output Persister: whenever skip is not requested and 30
\* or more entries are non-zero, the call returns the kernel's denoised
\* volume.
C1_RunReturnsDenoised ==
    (op.name = "denoise" /\ ~SkipCase /\ op.kernel # "fails" /\ ~op.saveInvoked) =>
        (op.kernelInvoked /\ op.status = "ok" /\ op.returned = DenoisedOut)

\* C1 (amended): a denoise call ends in skip exactly when the Config skip
\* option is set at entry or fewer than 30 b-values are non-zero; in skip it
\* returns the input dwi path and invokes neither the kernel nor the Output
\* Persister; otherwise it invokes the kernel and returns the kernel's
\* denoised volume exactly when the kernel succeeded and either no noise map
\* was requested or the kernel produced it and the Output Persister saved
\* it; it raises when the kernel fails, when the requested noise map is
\* missing (nothing is persisted) or when the save fails.
C1_DenoiseGate ==
    op.name = "denoise" =>
        /\ InSkip <=> SkipCase
        /\ SkipCase => /\ ~op.saveInvoked
                       /\ dirs = op.dirsBefore /\ files = op.filesBefore
        /\ ~SkipCase =>
              /\ op.kernelInvoked
              /\ op.saveInvoked <=> (op.map /\ op.kernel = "out_and_noise")
              /\ (op.status = "ok" /\ op.returned = DenoisedOut)
                    <=> /\ op.kernel # "fails"
                        /\ \/ ~op.map
                           \/ /\ op.kernel = "out_and_noise"
                              /\ \E f \in files : f.src = NoiseOut
              /\ op.status # "ok" => op.returned = <<>>
              /\ (op.map /\ op.kernel = "out_only") =>
                    (op.status = "ValueError" /\ files = op.filesBefore
                        /\ dirs = op.dirsBefore)

C1_Witness ==
    /\ op.name = "denoise"
    /\ NonZeroEntries(op.bval) = 30
    /\ ~op.entrySkip
    /\ op.map /\ op.kernel = "out_only"
    /\ op.status = "ValueError"

\* C8: with a Config in which skipping was not requested, every denoise
\* call whose table has 30 or more non-zero entries runs the kernel,
\* whatever the earlier calls were.
C8_SkipFlagIsLocal ==
    (op.name = "denoise" /\ ~cfg0.skip /\ NonZeroEntries(op.bval) >= 30) =>
        op.kernelInvoked

----------------------------------------------------------------------------
(* workflow/diffusion/tractography.py: _tckgen, generate_tractography *)

MaxThreads == 2         \* cfg["opt.threads"]

DefaultStreamlines == 10000

\* fod.input_output[0].output
WmFod == KernelOutput("mtnormalise", BidsName("model-csd_param-wm_dwimap.nii.gz"))

TractCfgs ==
    [skip : {FALSE}, map : {FALSE}, output_dir : OutRoots,
     method : {"wm", "act", "other"}, threads : 1..MaxThreads,
     steps : {"None", "0.5"}, cutoff : {"None", "0.1"}]

\* _tckgen: the cases of the match that call the kernel
Implemented_ActToo(method) == method \in {"wm", "act"}
Implemented(method) == method = "wm"

TracksOut   == KernelOutput("tckgen", BidsName("method-iFOD2_tractography.tck"))
WeightsOut  == KernelOutput("tcksift2", BidsName("method-SIFT2_tckWeights.txt"))
TdiOut(meas) ==
    KernelOutput("tckmap", BidsName(IF meas = "raw" THEN "meas-raw_tdi.nii.gz"
                                                   ELSE "meas-weighted_tdi.nii.gz"))

NoPath == <<>>

\* the locals of generate_tractography
TractLocals == [name |-> "generate_tractography", tracks |-> NoPath,
                out_weights |-> NoPath, tdi_raw |-> NoPath,
                tdi_weighted |-> NoPath, error |-> "none"]

\* one external invocation, as logged
Invocation(kernel, tracks, weights, meas, ok) ==
    [kernel |-> kernel, tracks |-> tracks, weights |-> weights, meas |-> meas,
     fod |-> WmFod, nthreads |-> cfg.threads,
     step |-> IF kernel = "tckgen" THEN cfg.steps ELSE "None",
     cutoff |-> IF kernel = "tckgen" THEN cfg.cutoff ELSE "None",
     select |-> IF kernel = "tckgen" THEN DefaultStreamlines ELSE 0,
     ok |-> ok]

InitTract ==
    /\ cfg \in TractCfgs
    /\ cfg0 = cfg
    /\ InitFs
    /\ op = TractLocals
    /\ ncalls = 0
    /\ arg = <<>>
    /\ pc = "tckgen" /\ calls = <<>>
    /\ procs = <<>>

\* tckgen = _tckgen(...): an unimplemented method raises, "wm" runs the kernel
Tckgen ==
    /\ pc = "tckgen"
    /\ IF Implemented(cfg.method)
       THEN \E ok \in BOOLEAN :
              /\ calls' = Append(calls, Invocation("tckgen", NoPath, NoPath, "none", ok))
              /\ pc' = IF ok THEN "tcksift2" ELSE "error"
              /\ op' = IF ok THEN [op EXCEPT !.tracks = TracksOut]
                             ELSE [op EXCEPT !.error = "KernelError"]
       ELSE /\ pc' = "error"
            /\ op' = [op EXCEPT !.error = "NotImplementedError"]
            /\ calls' = calls
    /\ UNCHANGED <<dirs, files, cfg, cfg0, arg, ncalls, procs>>

\* tcksift = mrtrix.tcksift2(in_tracks=tckgen.tracks, ...)
Tcksift2 ==
    /\ pc = "tcksift2"
    /\ \E ok \in BOOLEAN :
          /\ calls' = Append(calls, Invocation("tcksift2", op.tracks, NoPath, "none", ok))
          /\ pc' = IF ok THEN "tckmap_raw" ELSE "error"
          /\ op' = IF ok THEN [op EXCEPT !.out_weights = WeightsOut]
                         ELSE [op EXCEPT !.error = "KernelError"]
    /\ UNCHANGED <<dirs, files, cfg, cfg0, arg, ncalls, procs>>

\* the loop over zip(["raw", "weighted"], [None, tcksift.out_weights])
Tckmap(meas) ==
    /\ pc = IF meas = "raw" THEN "tckmap_raw" ELSE "tckmap_weighted"
    /\ \E ok \in BOOLEAN :
          /\ calls' = Append(calls,
                Invocation("tckmap", op.tracks,
                           IF meas = "raw" THEN NoPath ELSE op.out_weights, meas, ok))
          /\ pc' = IF ~ok THEN "error"
                   ELSE IF meas = "raw" THEN "tckmap_weighted" ELSE "save"
          /\ op' = IF ~ok THEN [op EXCEPT !.error = "KernelError"]
                   ELSE IF meas = "raw" THEN [op EXCEPT !.tdi_raw = TdiOut(meas)]
                   ELSE [op EXCEPT !.tdi_weighted = TdiOut(meas)]
    /\ UNCHANGED <<dirs, files, cfg, cfg0, arg, ncalls, procs>>

\* utils.io.save(files=[tracks, out_weights, tdi["weighted"].output], ...)
SaveOutputs ==
    /\ pc = "save"
    /\ LET r == SaveList(dirs, files, <<op.tracks, op.out_weights, op.tdi_weighted>>,
                         StageOutDir(cfg))
       IN  /\ dirs' = r.dirs
           /\ files' = r.files
           /\ pc' = IF r.status = "ok" THEN "done" ELSE "error"
           /\ op' = IF r.status = "ok" THEN op ELSE [op EXCEPT !.error = r.status]
    /\ ncalls' = ncalls + 1
    /\ UNCHANGED <<cfg, cfg0, arg, calls, procs>>

NextTract ==
    \/ Tckgen
    \/ Tcksift2
    \/ \E meas \in {"raw", "weighted"} : Tckmap(meas)
    \/ SaveOutputs

SpecTract == InitTract /\ [][NextTract]_vars

(* Claims about generate_tractography *)

Terminated == pc \in {"done", "error"}

\* C2: for every method other than "wm" the stage fails with an error
\* before any external kernel is invoked, and nothing is persisted.
C2_UnsupportedMethodFailsFirst ==
    cfg.method # "wm" =>
        /\ calls = <<>>
        /\ files = {} /\ dirs = {}
        /\ pc \in {"tckgen", "error"}
        /\ pc = "error" => op.error = "NotImplementedError"
        /\ pc = "tckgen" => op.error = "none"

C2_Witness ==
    /\ cfg.method = "act"
    /\ pc = "error"
    /\ op.error = "NotImplementedError"
    /\ calls = <<>>

KernelOrder == <<"tckgen", "tcksift2", "tckmap", "tckmap">>

\* the external invocations happen in the fixed order, each after the
\* previous one succeeded, and each is given its predecessors' outputs
InOrder ==
    /\ Len(calls) <= 4
    /\ \A k \in 1..Len(calls) :
          /\ calls[k].kernel = KernelOrder[k]
          /\ k < Len(calls) => calls[k].ok
    /\ Len(calls) >= 2 => calls[2].tracks = TracksOut
    /\ Len(calls) >= 3 =>
          (calls[3].meas = "raw" /\ calls[3].tracks = TracksOut /\ calls[3].weights = NoPath)
    /\ Len(calls) >= 4 =>
          (calls[4].meas = "weighted" /\ calls[4].tracks = TracksOut
              /\ calls[4].weights = WeightsOut)

AllKernelsOk == Len(calls) = 4 /\ \A k \in 1..4 : calls[k].ok

PersistedAt(name, src) ==
    [path |-> cfg.output_dir \o BidsDirectory \o <<name>>, src |-> src] \in files

\* C7: for method "wm" the steps run in order (tracks, weights, raw density,
\* weighted density, persistence), each after the previous one completed;
\* exactly the track file, the weight file and the weighted density image
\* are persisted, and if an external invocation fails no later step runs
\* and nothing is persisted.
C7_OrderedAndPersisted ==
    cfg.method = "wm" =>
        /\ InOrder
        /\ files # {} => AllKernelsOk
        /\ (Terminated /\ ~AllKernelsOk) => (files = {} /\ ~calls[Len(calls)].ok)
        /\ (Terminated /\ AllKernelsOk) =>
              /\ Cardinality(files) = 3
              /\ PersistedAt(TracksOut[Len(TracksOut)], TracksOut)
              /\ PersistedAt(WeightsOut[Len(WeightsOut)], WeightsOut)
              /\ PersistedAt(TdiOut("weighted")[Len(TdiOut("weighted"))], TdiOut("weighted"))
              /\ \A f \in files : f.src # TdiOut("raw")

\* The part of C7 that does not depend on where save copies to: the order
\* of the invocations, and that a failed invocation ends the stage with
\* nothing persisted.
TractOrderAndFailStop ==
    cfg.method = "wm" =>
        /\ InOrder
        /\ files # {} => AllKernelsOk
        /\ (Terminated /\ ~AllKernelsOk) => (files = {} /\ ~calls[Len(calls)].ok)
        /\ \A f \in files : f.src \in {TracksOut, WeightsOut, TdiOut("weighted")}

====
